---- MODULE Spec2Model ----
(***************************************************************************)
(* Consumer / credential provisioning of kong-auth.                        *)
(*                                                                         *)
(* The gateway (Kong Admin API) holds the only shared state: the consumer  *)
(* records and, per consumer, the listing of JWT credentials.  Every       *)
(* request handler runs as an independent asynchronous task; its           *)
(* suspension points are exactly its gateway calls, so one action is one   *)
(* gateway call together with the synchronous code that follows it up to   *)
(* the next call (or up to the HTTP response of the view).                 *)
(*                                                                         *)
(* Strings that the code builds by concatenation (token names, JWTs) are   *)
(* sequences of atoms, an atom being a TLA+ string.                        *)
(***************************************************************************)
EXTENDS Integers, Sequences, FiniteSets, TLC

VARIABLES
    consumers,   \* gateway: sequence of consumer records [id, username]
    jwt,         \* gateway: username -> listing of that consumer's credentials
    nextId,      \* gateway: next fresh id
    now,         \* wall clock, seconds
    faults,      \* number of gateway calls answered with a fault so far
    consumers0,  \* history: usernames that had a consumer initially
    pc,          \* task -> position in its handler
    op,          \* task -> operation it runs
    user,        \* task -> username argument
    token_name,  \* task -> token name used for the first create / name to delete
    secret,      \* task -> secret generated by create_jwt_credentials
    was_created, \* task -> second component of get_or_create_consumer's result
    token_id,    \* task -> id of the credential to delete
    jwt_credentials,   \* task -> credential record the gateway answered the create with
    actual_token_name, \* task -> third component of create_jwt_credentials' result
    calls,       \* task -> gateway calls made so far, oldest first
    res,         \* task -> outcome of the service operation
    http         \* task -> status code of the view's HTTP response (0: none yet)

vars == <<consumers, jwt, nextId, now, faults, consumers0, pc, op, user,
          token_name, secret, was_created, token_id, jwt_credentials,
          actual_token_name, calls, res, http>>

gwvars == <<consumers, jwt, nextId>>

----------------------------------------------------------------------------
(* Bounds *)

MaxTick == 1
MaxFaults == 1
MaxRnd == 1

(* Program constants *)

JWT_EXPIRATION_SECONDS == 31536000
PrefixLen == 10
SuffixLen == 10
TruncateOver == 20

\* the request tasks in flight: the concurrency properties speak of two calls
Tasks == {"t1", "t2"}
Users == {"alice", "bob"}
Secrets == {"s1", "s2"}
RequestedNames == {<<>>, <<"tok">>}
DeleteNames == {<<"alice">>, <<"tok">>}
DeleteIds == {2, 9}
Timeout == 0
FaultStatus == {500, Timeout}

----------------------------------------------------------------------------
(* Pure helpers *)

Pad2(n) == IF n < 10 THEN "0" \o ToString(n) ELSE ToString(n)

\* datetime.utcnow().strftime("%H%M%S")
HHMMSS(t) == Pad2((t \div 3600) % 24) \o Pad2((t \div 60) % 60) \o Pad2(t % 60)

\* datetime.utcnow().strftime("%Y%m%d_%H%M%S"); the clock starts on 2024-01-01
\* and stays within that month
YmdHMS(t) == "202401" \o Pad2(1 + (t \div 86400)) \o "_" \o HHMMSS(t)

\* str(uuid.uuid4())[:8]
Hex8(i) == "0000000" \o ToString(i)
RndHex == {Hex8(i) : i \in 0..MaxRnd}

\* base64.b64encode(secret.encode()).decode()
b64encode(s) == CASE s = "s1" -> "czE="
                  [] s = "s2" -> "czI="
                  [] OTHER -> "?"

\* base64.b64decode(x).decode() succeeds
b64ok(x) == x \in {"czE=", "czI="}

\* base64.b64decode(x).decode()
b64decode(x) == CASE x = "czE=" -> "s1"
                  [] x = "czI=" -> "s2"
                  [] OTHER -> "?"

\* a fresh identifier per call instead of a name-based one
get_consumer_uuid_fresh(u) == ToString(nextId)

\* uuid.uuid5(NAMESPACE_DNS, username)
get_consumer_uuid(u) == CASE u = "alice" -> "c2ef90b9-02bc-5d53-93cd-92652b6e1b41"
                          [] u = "bob" -> "ef45d397-0411-5f5e-8940-9bdbdef3958b"
                          [] OTHER -> "?"

generate_default_token_name(u, prefix, t) == <<u, "_", prefix, "_", YmdHMS(t)>>

\* f"{token_name}_{unique_timestamp}_{unique_suffix}"
UniqueTokenName(name, t, suffix) == name \o <<"_", HHMMSS(t), "_", suffix>>

IsPrefix(s, t) == Len(s) <= Len(t) /\ SubSeq(t, 1, Len(s)) = s

\* position of the first occurrence of atom a in s (0 when absent)
IndexOf(s, a) ==
    IF \E i \in 1..Len(s) : s[i] = a
    THEN CHOOSE i \in 1..Len(s) : s[i] = a /\ \A j \in 1..(i-1) : s[j] # a
    ELSE 0

----------------------------------------------------------------------------
(* JWT (HS256, compact serialisation) *)

\* base64url of {"alg":"HS256","typ":"JWT"}
JwtHeader == <<"e","y","J","h","b","G","c","i","O","i","J","I","U","z","I","1",
               "N","i","I","s","I","n","R","5","c","C","I","6","I","k","p","X",
               "V","C","J","9">>

\* the payload segment: the claims in the order the code builds them
JwtPayload(iss, kid, exp, iat) ==
    <<"iss:", iss, "kid:">> \o kid \o <<"exp:", ToString(exp), "iat:", ToString(iat)>>

\* the signature segment: the MAC of header.payload under the secret
JwtSignature(sec) == <<"hs256:", sec>>

jwt_encode(iss, kid, exp, iat, sec) ==
    JwtHeader \o <<".">> \o JwtPayload(iss, kid, exp, iat) \o <<".">> \o JwtSignature(sec)

\* the claims and signing key read back from a serialised token
jwt_iss(tok) == tok[IndexOf(tok, "iss:") + 1]
jwt_kid(tok) == SubSeq(tok, IndexOf(tok, "kid:") + 1, IndexOf(tok, "exp:") - 1)
jwt_key(tok) == tok[IndexOf(tok, "hs256:") + 1]

\* jwt.decode(token, secret, algorithms=["HS256"]) accepts the signature
jwt_verify(tok, sec) ==
    SubSeq(tok, IndexOf(tok, "hs256:"), Len(tok)) = JwtSignature(sec)

\* a token whose kid is the principal name instead of the credential key
generate_jwt_token_kidIsUser(u, name, sec, t) ==
    [token |-> jwt_encode(u, <<u>>, t + JWT_EXPIRATION_SECONDS, t, sec),
     expiration |-> t + JWT_EXPIRATION_SECONDS]

\* JWTTokenService.generate_jwt_token
generate_jwt_token(u, name, sec, t) ==
    [token |-> jwt_encode(u, name, t + JWT_EXPIRATION_SECONDS, t, sec),
     expiration |-> t + JWT_EXPIRATION_SECONDS]

\* truncation with an off-by-one tail slice
TruncateToken_shortTail(tok) ==
    IF Len(tok) > TruncateOver
    THEN SubSeq(tok, 1, PrefixLen) \o <<".", ".", ".">>
         \o SubSeq(tok, Len(tok) - SuffixLen + 2, Len(tok))
    ELSE tok

\* f"{jwt_token[:10]}...{jwt_token[-10:]}"
TruncateToken(tok) ==
    IF Len(tok) > TruncateOver
    THEN SubSeq(tok, 1, PrefixLen) \o <<".", ".", ".">>
         \o SubSeq(tok, Len(tok) - SuffixLen + 1, Len(tok))
    ELSE tok

\* the secret of a listed credential is missing or empty
NoSecret(d) == "secret" \notin DOMAIN d \/ d.secret = ""

\* JWTTokenService.enhance_token_info
enhance_token_info(d, u, t) ==
    IF NoSecret(d) THEN d
    ELSE IF ~b64ok(d.secret) THEN d
    ELSE LET g == generate_jwt_token(u, d.key, b64decode(d.secret), t)
         IN  [id |-> d.id, key |-> d.key, token_name |-> d.key,
              algorithm |-> d.algorithm, created_at |-> d.created_at,
              consumer_id |-> d.consumer.id, rsa_public_key |-> "None",
              token |-> TruncateToken(g.token), expires_at |-> g.expiration]

\* isinstance(token, dict)
IsDict(x) == "str" \notin DOMAIN x

RECURSIVE EnhanceAll(_, _, _)
\* the loop of TokenService.list_user_tokens
EnhanceAll(items, u, t) ==
    IF items = <<>> THEN <<>>
    ELSE IF IsDict(Head(items))
         THEN <<enhance_token_info(Head(items), u, t)>> \o EnhanceAll(Tail(items), u, t)
         ELSE EnhanceAll(Tail(items), u, t)

\* list_user_tokens counting the items of the gateway listing
ListResult_countListing(items, u, t) ==
    LET e == EnhanceAll(items, u, t)
    IN  [username |-> u, total_tokens |-> Len(items), tokens |-> e]

\* TokenService.list_user_tokens, after the gateway answered
ListResult(items, u, t) ==
    LET e == EnhanceAll(items, u, t)
    IN  [username |-> u, total_tokens |-> Len(e), tokens |-> e]

\* pydantic: TokenInfo(**entry) validates
TokenInfoValid(e) == {"id", "key", "token_name", "algorithm"} \subseteq DOMAIN e

\* pydantic: MyTokensResponse(**result) validates
MyTokensResponseValid(r) == \A i \in 1..Len(r.tokens) : TokenInfoValid(r.tokens[i])

\* find_token_by_name that returns the first token of the listing
FindKey_firstItem(items, name) == IF items = <<>> THEN 0 ELSE 1

RECURSIVE FindKey(_, _)
\* the loop of KongConsumerService.find_token_by_name: index of the match, 0 for None
FindKey(items, name) ==
    IF items = <<>> THEN 0
    ELSE IF IsDict(Head(items)) /\ Head(items).key = name THEN 1
    ELSE LET r == FindKey(Tail(items), name) IN IF r = 0 THEN 0 ELSE r + 1

----------------------------------------------------------------------------
(* Gateway *)

HasConsumer(cs, u) == \E i \in 1..Len(cs) : cs[i].username = u
ConsumerOf(cs, u) == cs[CHOOSE i \in 1..Len(cs) : cs[i].username = u]

Credential(id, cid, key, sec, t) ==
    [id |-> id, key |-> key, secret |-> sec, algorithm |-> "HS256",
     created_at |-> t, consumer |-> [id |-> cid]]

KeyUsed(items, key) == \E i \in 1..Len(items) : IsDict(items[i]) /\ items[i].key = key
IdAt(items, id) ==
    IF \E i \in 1..Len(items) : IsDict(items[i]) /\ items[i].id = id
    THEN CHOOSE i \in 1..Len(items) : IsDict(items[i]) /\ items[i].id = id
    ELSE 0
RemoveAt(s, i) == SubSeq(s, 1, i - 1) \o SubSeq(s, i + 1, Len(s))

\* statuses the gateway may answer besides the regular one
Faulty == IF faults < MaxFaults THEN FaultStatus ELSE {}

\* credentials that exist before the service runs, in listing order: a regular
\* one, one whose secret does not decode, one without secret, a non-dict item
Pool == << Credential(2, 1, <<"alice">>, "czE=", 0),
           Credential(3, 1, <<"tok">>, "abc", 0),
           [id |-> 4, key |-> <<"old">>, algorithm |-> "HS256", created_at |-> 0,
            consumer |-> [id |-> 1]],
           [str |-> "invalid_string"] >>

InitGateways ==
    {[consumers |-> <<>>, items |-> <<>>]} \cup
    {[consumers |-> <<[id |-> 1, username |-> "alice"]>>, items |-> SubSeq(Pool, 1, k)]
        : k \in 0..Len(Pool)}

----------------------------------------------------------------------------
(* Decisions of the handlers on the gateway's answer *)

\* get_or_create_consumer that sends the create whatever the lookup answered
OnLookup_createFirst(st) == CASE st \in {200, 404} -> "create"
                              [] st = Timeout -> "timeout"
                              [] OTHER -> "raise"

\* get_or_create_consumer: branch on the status of the lookup
OnLookup(st) == CASE st = 200 -> "found"
                  [] st = 404 -> "create"
                  [] st = Timeout -> "timeout"
                  [] OTHER -> "raise"

\* _create_consumer that raises on 409 instead of fetching the existing consumer
OnCreateConsumer_raise409(st) == CASE st = 201 -> "created"
                                   [] st = Timeout -> "timeout"
                                   [] OTHER -> "raise"

\* _create_consumer: branch on the status of the create
OnCreateConsumer(st) == CASE st = 201 -> "created"
                          [] st = 409 -> "get_existing"
                          [] st = Timeout -> "timeout"
                          [] OTHER -> "raise"

\* _get_existing_consumer without raise_for_status
OnGetExisting_unchecked(st) == CASE st = Timeout -> "timeout"
                                 [] OTHER -> "found"

\* _get_existing_consumer: raise_for_status
OnGetExisting(st) == CASE st = 200 -> "found"
                       [] st = Timeout -> "timeout"
                       [] OTHER -> "raise"

\* create_jwt_credentials that fails on 409 without trying another name
OnCreateJwt_noRetry(st) == CASE st = 201 -> "created"
                             [] st = Timeout -> "timeout"
                             [] OTHER -> "raise"

\* create_jwt_credentials that retries under a new name after any failed create
OnCreateJwt_retryAny(st) == CASE st = 201 -> "created"
                              [] st = Timeout -> "timeout"
                              [] OTHER -> "duplicate"

\* create_jwt_credentials: branch on the status of the first create
OnCreateJwt(st) == CASE st = 201 -> "created"
                     [] st = 409 -> "duplicate"
                     [] st = Timeout -> "timeout"
                     [] OTHER -> "raise"

\* _handle_duplicate_token_name without raise_for_status on the retried create
OnRetryJwt_unchecked(st) == CASE st = Timeout -> "timeout"
                              [] OTHER -> "created"

\* _handle_duplicate_token_name: raise_for_status on the retried create
OnRetryJwt(st) == CASE st = 201 -> "created"
                    [] st = Timeout -> "timeout"
                    [] OTHER -> "raise"

\* delete_jwt_token that takes a 404 for a successful delete
OnDelete_404ok(st) == CASE st = 204 -> "true"
                        [] st = 404 -> "true"
                        [] st = Timeout -> "timeout"
                        [] OTHER -> "raise"

\* delete_jwt_token: branch on the status of the delete
OnDelete(st) == CASE st = 204 -> "true"
                  [] st = 404 -> "false"
                  [] st = Timeout -> "timeout"
                  [] OTHER -> "raise"

\* every return of get_or_create_consumer reports the consumer as created
WasCreated_always(site) == TRUE

\* the second component get_or_create_consumer returns, by return statement:
\* True after its own POST was answered 201, False when a GET found the consumer
WasCreated(site) == site = "created"

\* the result reports the name the caller asked for
ReportedName_requested(requested, actual) == requested

\* the token_name field of the result: actual_token_name, as returned by
\* create_jwt_credentials
ReportedName(requested, actual) == actual

\* the retry path returning the requested name
ReturnedName_requested(requested, unique) == requested

\* the name create_jwt_credentials returns on the retry path
ReturnedName(requested, unique) == unique

\* token generation with the requested name
SignedName_requested(requested, actual) == requested

\* the name the provisioning operations pass to generate_jwt_token
SignedName(requested, actual) == actual

\* delete_token_by_name: "if not token"
NotFound(i) == i = 0

----------------------------------------------------------------------------
(* Outcomes *)

NoVal == [none |-> TRUE]
Ok(v) == [st |-> "ok", err |-> "", exc |-> "", val |-> v]
Err(kind, exc) == [st |-> "error", err |-> kind, exc |-> exc, val |-> NoVal]
Pending == [st |-> "none", err |-> "", exc |-> "", val |-> NoVal]

\* status code the view answers with when the service raised exc
ViewError(o, exc) ==
    IF o \in {"delete_token_by_name", "delete_token_by_id"} /\ exc = "ValueError"
    THEN 404 ELSE 500

\* status code the view answers with when the service returned v
ViewOk(o, v) ==
    CASE o = "list_user_tokens" -> IF MyTokensResponseValid(v) THEN 200 ELSE 500
      [] o = "delete_token_by_id" -> IF v.deleted THEN 200 ELSE 500
      [] OTHER -> 200

\* the method of KongConsumerService that issues the task's next call
Site(p) == IF pc[p] = "idle" THEN "list_user_jwt_tokens" ELSE pc[p]

\* the status on which the method takes its success path
SuccessStatus(site) ==
    CASE site \in {"_create_consumer", "create_jwt_credentials",
                   "_handle_duplicate_token_name"} -> 201
      [] site = "delete_jwt_token" -> 204
      [] OTHER -> 200

\* KONG_API_CALLS_COUNT increments for a call of the method answered st: none
\* when the request raised a timeout, when the lookup was answered 404, or
\* when list_user_jwt_tokens raised for status before its metrics
CountObs(site, st) ==
    CASE st = Timeout -> 0
      [] site = "get_or_create_consumer" -> IF st = 404 THEN 0 ELSE 1
      [] site = "list_user_jwt_tokens" -> IF st = 200 THEN 1 ELSE 0
      [] OTHER -> 1

\* KONG_API_DURATION_SECONDS observations: on the success path only
DurationObs(site, st) == IF st = SuccessStatus(site) THEN 1 ELSE 0

\* one gateway call: method, endpoint, answered status, key sent in the body
Call(site, m, ep, st, key) ==
    [m |-> m, ep |-> ep, st |-> st, key |-> key,
     counted |-> CountObs(site, st), timed |-> DurationObs(site, st)]

\* the task's call is logged and a fault is counted
Logged(p, m, ep, st, key) ==
    /\ calls' = [calls EXCEPT ![p] = Append(@, Call(Site(p), m, ep, st, key))]
    /\ faults' = IF st \in FaultStatus THEN faults + 1 ELSE faults

\* a service that repeats the gateway call after a timeout instead of failing
Raise_retryTimeout(p, o, kind, exc) ==
    /\ res' = [res EXCEPT ![p] = Err(kind, exc)]
    /\ http' = [http EXCEPT ![p] = ViewError(o, exc)]
    /\ pc' = [pc EXCEPT ![p] = IF exc = "TimeoutException" THEN @ ELSE "done"]

\* the service raises: the view turns it into an error response
Raise(p, o, kind, exc) ==
    /\ res' = [res EXCEPT ![p] = Err(kind, exc)]
    /\ http' = [http EXCEPT ![p] = ViewError(o, exc)]
    /\ pc' = [pc EXCEPT ![p] = "done"]

\* the service returns v: the view builds the response
Return(p, o, v) ==
    /\ res' = [res EXCEPT ![p] = Ok(v)]
    /\ http' = [http EXCEPT ![p] = ViewOk(o, v)]
    /\ pc' = [pc EXCEPT ![p] = "done"]

Goto(p, l) ==
    /\ pc' = [pc EXCEPT ![p] = l]
    /\ UNCHANGED <<res, http>>

\* what the provisioning operation returns once the credential is stored
ProvisionResult(o, u, requested, actual, sec, cred, created, t) ==
    LET g == generate_jwt_token(u, SignedName(requested, actual), sec, t)
    IN  CASE o = "create_consumer_with_token" ->
               [username |-> u, consumer_uuid |-> get_consumer_uuid(u),
                token |-> g.token, expires_at |-> g.expiration]
          [] o = "generate_auto_token" ->
               [token |-> g.token, expires_at |-> g.expiration,
                token_name |-> ReportedName(requested, actual), token_id |-> cred.id]
          [] OTHER ->
               [username |-> u, consumer_uuid |-> get_consumer_uuid(u),
                token |-> g.token, expires_at |-> g.expiration,
                token_name |-> ReportedName(requested, actual), token_id |-> cred.id,
                consumer_created |-> created]

----------------------------------------------------------------------------
(* Initial state *)

Init ==
    /\ \E g \in InitGateways :
         /\ consumers = g.consumers
         /\ jwt = [u \in Users |-> IF u = "alice" THEN g.items ELSE <<>>]
         /\ consumers0 = {g.consumers[i].username : i \in 1..Len(g.consumers)}
    /\ nextId = Len(Pool) + 2
    /\ now = 0
    /\ faults = 0
    /\ pc = [p \in Tasks |-> "idle"]
    /\ op = [p \in Tasks |-> "none"]
    /\ user = [p \in Tasks |-> "none"]
    /\ token_name = [p \in Tasks |-> <<>>]
    /\ secret = [p \in Tasks |-> ""]
    /\ was_created = [p \in Tasks |-> FALSE]
    /\ token_id = [p \in Tasks |-> 0]
    /\ jwt_credentials = [p \in Tasks |-> NoVal]
    /\ actual_token_name = [p \in Tasks |-> <<>>]
    /\ calls = [p \in Tasks |-> <<>>]
    /\ res = [p \in Tasks |-> Pending]
    /\ http = [p \in Tasks |-> 0]

----------------------------------------------------------------------------
(* Operations *)

Begin(p, o, u, name) ==
    /\ pc[p] = "idle"
    /\ op' = [op EXCEPT ![p] = o]
    /\ user' = [user EXCEPT ![p] = u]
    /\ token_name' = [token_name EXCEPT ![p] = name]

\* TokenService.create_consumer_with_token, up to its first gateway call
create_consumer_with_token(p) ==
    \E u \in Users :
        /\ Begin(p, "create_consumer_with_token", u, <<u>>)
        /\ Goto(p, "get_or_create_consumer")
        /\ UNCHANGED <<gwvars, now, faults, consumers0, secret, was_created,
                       token_id, jwt_credentials, actual_token_name, calls>>

\* TokenService.generate_auto_token, up to its first gateway call
generate_auto_token(p) ==
    \E u \in Users, requested \in RequestedNames :
        /\ Begin(p, "generate_auto_token", u,
                 IF requested = <<>>
                 THEN generate_default_token_name(u, "token", now)
                 ELSE requested)
        /\ Goto(p, "get_or_create_consumer")
        /\ UNCHANGED <<gwvars, now, faults, consumers0, secret, was_created,
                       token_id, jwt_credentials, actual_token_name, calls>>

\* TokenService.auto_generate_consumer_and_token, up to its first gateway call
auto_generate_consumer_and_token(p) ==
    \E u \in Users :
        /\ Begin(p, "auto_generate_consumer_and_token", u,
                 generate_default_token_name(u, "auto", now))
        /\ Goto(p, "get_or_create_consumer")
        /\ UNCHANGED <<gwvars, now, faults, consumers0, secret, was_created,
                       token_id, jwt_credentials, actual_token_name, calls>>

\* KongConsumerService.get_or_create_consumer: GET /consumers/{username}
get_or_create_consumer(p) ==
    /\ pc[p] = "get_or_create_consumer"
    /\ \E st \in {IF HasConsumer(consumers, user[p]) THEN 200 ELSE 404} \cup Faulty :
        /\ Logged(p, "GET", "consumer", st, <<>>)
        /\ CASE OnLookup(st) = "found" ->
                  /\ was_created' = [was_created EXCEPT ![p] = WasCreated("found")]
                  /\ Goto(p, "create_jwt_credentials")
             [] OnLookup(st) = "create" ->
                  /\ Goto(p, "_create_consumer")
                  /\ UNCHANGED was_created
             [] OnLookup(st) = "timeout" ->
                  /\ Raise(p, op[p], "timeout", "TimeoutException")
                  /\ UNCHANGED was_created
             [] OTHER ->
                  /\ Raise(p, op[p], "check_consumer_failed", "Exception")
                  /\ UNCHANGED was_created
    /\ UNCHANGED <<gwvars, now, consumers0, op, user, token_name, secret,
                   token_id, jwt_credentials, actual_token_name>>

\* KongConsumerService._create_consumer: POST /consumers/
_create_consumer(p) ==
    /\ pc[p] = "_create_consumer"
    /\ \E st \in {IF HasConsumer(consumers, user[p]) THEN 409 ELSE 201} \cup Faulty :
        /\ Logged(p, "POST", "consumer", st, <<>>)
        /\ IF st = 201
           THEN /\ consumers' = Append(consumers, [id |-> nextId, username |-> user[p]])
                /\ nextId' = nextId + 1
           ELSE UNCHANGED <<consumers, nextId>>
        /\ CASE OnCreateConsumer(st) = "created" ->
                  /\ was_created' = [was_created EXCEPT ![p] = WasCreated("created")]
                  /\ Goto(p, "create_jwt_credentials")
             [] OnCreateConsumer(st) = "get_existing" ->
                  /\ Goto(p, "_get_existing_consumer")
                  /\ UNCHANGED was_created
             [] OnCreateConsumer(st) = "timeout" ->
                  /\ Raise(p, op[p], "timeout", "TimeoutException")
                  /\ UNCHANGED was_created
             [] OTHER ->
                  /\ Raise(p, op[p], "create_consumer_failed", "Exception")
                  /\ UNCHANGED was_created
    /\ UNCHANGED <<jwt, now, consumers0, op, user, token_name, secret,
                   token_id, jwt_credentials, actual_token_name>>

\* KongConsumerService._get_existing_consumer: GET /consumers/{username}
_get_existing_consumer(p) ==
    /\ pc[p] = "_get_existing_consumer"
    /\ \E st \in {IF HasConsumer(consumers, user[p]) THEN 200 ELSE 404} \cup Faulty :
        /\ Logged(p, "GET", "consumer", st, <<>>)
        /\ CASE OnGetExisting(st) = "found" ->
                  /\ was_created' = [was_created EXCEPT ![p] = WasCreated("found")]
                  /\ Goto(p, "create_jwt_credentials")
             [] OnGetExisting(st) = "timeout" ->
                  /\ Raise(p, op[p], "timeout", "TimeoutException")
                  /\ UNCHANGED was_created
             [] OTHER ->
                  /\ Raise(p, op[p], "get_existing_consumer_failed", "Exception")
                  /\ UNCHANGED was_created
    /\ UNCHANGED <<gwvars, now, consumers0, op, user, token_name, secret,
                   token_id, jwt_credentials, actual_token_name>>

\* status of POST /consumers/{username}/jwt with the given key
CreateJwtStatus(u, key) ==
    IF ~HasConsumer(consumers, u) THEN 404
    ELSE IF KeyUsed(jwt[u], key) THEN 409 ELSE 201

\* a gateway create that replaces the consumer's credentials by the new one
Stored_replacing(p, key, secret_base64, sec, name) ==
    LET cred == Credential(nextId, ConsumerOf(consumers, user[p]).id, key,
                           secret_base64, now)
    IN  /\ jwt' = [jwt EXCEPT ![user[p]] = <<cred>>]
        /\ nextId' = nextId + 1
        /\ jwt_credentials' = [jwt_credentials EXCEPT ![p] = cred]
        /\ actual_token_name' = [actual_token_name EXCEPT ![p] = name]
        /\ Return(p, op[p], ProvisionResult(op[p], user[p], token_name[p], name,
                                     sec, cred, was_created[p], now))

\* the retry path returning the base64 text it was given
RetrySecret_undecoded(secret_base64) == secret_base64

\* the secret _handle_duplicate_token_name returns:
\* base64.b64decode(secret_base64).decode()
RetrySecret(secret_base64) == b64decode(secret_base64)

\* the gateway stores the credential and answers with it; the operation returns
Stored(p, key, secret_base64, sec, name) ==
    LET cred == Credential(nextId, ConsumerOf(consumers, user[p]).id, key,
                           secret_base64, now)
    IN  /\ jwt' = [jwt EXCEPT ![user[p]] = Append(@, cred)]
        /\ nextId' = nextId + 1
        /\ jwt_credentials' = [jwt_credentials EXCEPT ![p] = cred]
        /\ actual_token_name' = [actual_token_name EXCEPT ![p] = name]
        /\ Return(p, op[p], ProvisionResult(op[p], user[p], token_name[p], name,
                                     sec, cred, was_created[p], now))

\* KongConsumerService.create_jwt_credentials: POST /consumers/{username}/jwt
create_jwt_credentials(p) ==
    /\ pc[p] = "create_jwt_credentials"
    /\ \E st \in {CreateJwtStatus(user[p], token_name[p])} \cup Faulty :
        /\ Logged(p, "POST", "jwt", st, token_name[p])
        /\ CASE OnCreateJwt(st) = "created" ->
                  \E sec \in Secrets :
                      /\ secret' = [secret EXCEPT ![p] = sec]
                      /\ Stored(p, token_name[p], b64encode(sec), sec, token_name[p])
             [] OnCreateJwt(st) = "duplicate" ->
                  \E sec \in Secrets :
                      /\ secret' = [secret EXCEPT ![p] = sec]
                      /\ Goto(p, "_handle_duplicate_token_name")
                      /\ UNCHANGED <<jwt, nextId, jwt_credentials, actual_token_name>>
             [] OnCreateJwt(st) = "timeout" ->
                  /\ Raise(p, op[p], "timeout", "TimeoutException")
                  /\ UNCHANGED <<jwt, nextId, jwt_credentials, actual_token_name, secret>>
             [] OTHER ->
                  /\ Raise(p, op[p], "create_jwt_failed", "Exception")
                  /\ UNCHANGED <<jwt, nextId, jwt_credentials, actual_token_name, secret>>
    /\ UNCHANGED <<consumers, now, consumers0, op, user, token_name,
                   was_created, token_id>>

\* KongConsumerService._handle_duplicate_token_name: the retried POST
_handle_duplicate_token_name(p) ==
    /\ pc[p] = "_handle_duplicate_token_name"
    /\ \E suffix \in RndHex :
       LET unique_token_name == UniqueTokenName(token_name[p], now, suffix)
           secret_base64 == b64encode(secret[p])
       IN  \E st \in {CreateJwtStatus(user[p], unique_token_name)} \cup Faulty :
            /\ Logged(p, "POST", "jwt", st, unique_token_name)
            /\ CASE OnRetryJwt(st) = "created" ->
                      Stored(p, unique_token_name, secret_base64,
                             RetrySecret(secret_base64),
                             ReturnedName(token_name[p], unique_token_name))
                 [] OnRetryJwt(st) = "timeout" ->
                      /\ Raise(p, op[p], "timeout", "TimeoutException")
                      /\ UNCHANGED <<jwt, nextId, jwt_credentials, actual_token_name>>
                 [] OTHER ->
                      /\ Raise(p, op[p], "jwt_name_exhausted", "Exception")
                      /\ UNCHANGED <<jwt, nextId, jwt_credentials, actual_token_name>>
    /\ UNCHANGED <<consumers, now, consumers0, op, user, token_name, secret,
                   was_created, token_id>>

\* status of GET /consumers/{username}/jwt
ListStatus(u) == IF HasConsumer(consumers, u) THEN 200 ELSE 404

\* TokenService.list_user_tokens behind the list_my_tokens view
list_user_tokens(p) ==
    \E u \in Users :
        /\ Begin(p, "list_user_tokens", u, <<>>)
        /\ \E st \in {ListStatus(u)} \cup Faulty :
            /\ Logged(p, "GET", "jwt", st, <<>>)
            /\ CASE st = 200 -> Return(p, "list_user_tokens", ListResult(jwt[u], u, now))
                 [] st = Timeout -> Raise(p, "list_user_tokens", "timeout", "TimeoutException")
                 [] OTHER -> Raise(p, "list_user_tokens", "list_failed", "HTTPStatusError")
        /\ UNCHANGED <<gwvars, now, consumers0, secret, was_created, token_id,
                       jwt_credentials, actual_token_name>>

\* TokenService.delete_token_by_name: find_token_by_name
delete_token_by_name(p) ==
    \E u \in Users, name \in DeleteNames :
        /\ Begin(p, "delete_token_by_name", u, name)
        /\ \E st \in {ListStatus(u)} \cup Faulty :
            /\ Logged(p, "GET", "jwt", st, <<>>)
            /\ CASE st = 200 /\ NotFound(FindKey(jwt[u], name)) ->
                      /\ Raise(p, "delete_token_by_name", "token_not_found", "ValueError")
                      /\ UNCHANGED token_id
                 [] st = 200 /\ ~NotFound(FindKey(jwt[u], name)) ->
                      /\ token_id' = [token_id EXCEPT ![p] =
                                        jwt[u][FindKey(jwt[u], name)].id]
                      /\ Goto(p, "delete_jwt_token")
                 [] st = Timeout ->
                      /\ Raise(p, "delete_token_by_name", "timeout", "TimeoutException")
                      /\ UNCHANGED token_id
                 [] OTHER ->
                      /\ Raise(p, "delete_token_by_name", "list_failed", "HTTPStatusError")
                      /\ UNCHANGED token_id
        /\ UNCHANGED <<gwvars, now, consumers0, secret, was_created,
                       jwt_credentials, actual_token_name>>

\* TokenService.delete_token_by_id, up to its gateway call
delete_token_by_id(p) ==
    \E u \in Users, id \in DeleteIds :
        /\ Begin(p, "delete_token_by_id", u, <<>>)
        /\ token_id' = [token_id EXCEPT ![p] = id]
        /\ Goto(p, "delete_jwt_token")
        /\ UNCHANGED <<gwvars, now, faults, consumers0, secret, was_created,
                       jwt_credentials, actual_token_name, calls>>

\* a delete request addressed to the consumer instead of its credential
ConsumersAfterDelete_consumer(cs, u, st) ==
    IF st = 204 THEN SelectSeq(cs, LAMBDA c : c.username # u) ELSE cs

\* the consumers after DELETE /consumers/{username}/jwt/{jwt_id}: the request
\* addresses a credential
ConsumersAfterDelete(cs, u, st) == cs

\* status of DELETE /consumers/{username}/jwt/{id}
DeleteStatus(u, id) ==
    IF HasConsumer(consumers, u) /\ IdAt(jwt[u], id) # 0 THEN 204 ELSE 404

\* what the delete operations make of delete_jwt_token returning success
Deleted(p, success) ==
    IF op[p] = "delete_token_by_id"
    THEN Return(p, op[p], [deleted |-> success])
    ELSE IF ~success
         THEN Raise(p, op[p], "delete_failed", "ValueError")
         ELSE Return(p, op[p], [message |-> "Token deleted successfully",
                         deleted_token_name |-> token_name[p],
                         deleted_token_id |-> token_id[p]])

\* KongConsumerService.delete_jwt_token: DELETE /consumers/{username}/jwt/{id}
delete_jwt_token(p) ==
    /\ pc[p] = "delete_jwt_token"
    /\ \E st \in {DeleteStatus(user[p], token_id[p])} \cup Faulty :
        /\ Logged(p, "DELETE", "jwt", st, <<>>)
        /\ IF st = 204
           THEN jwt' = [jwt EXCEPT ![user[p]] = RemoveAt(@, IdAt(@, token_id[p]))]
           ELSE UNCHANGED jwt
        /\ CASE OnDelete(st) = "true" -> Deleted(p, TRUE)
             [] OnDelete(st) = "false" -> Deleted(p, FALSE)
             [] OnDelete(st) = "timeout" -> Raise(p, op[p], "timeout", "TimeoutException")
             [] OTHER -> Raise(p, op[p], "delete_error", "Exception")
        /\ consumers' = ConsumersAfterDelete(consumers, user[p], st)
    /\ UNCHANGED <<nextId, now, consumers0, op, user, token_name,
                   secret, was_created, token_id, jwt_credentials,
                   actual_token_name>>

\* the wall clock advances
Tick ==
    /\ now < MaxTick
    /\ now' = now + 1
    /\ UNCHANGED <<gwvars, faults, consumers0, pc, op, user, token_name, secret,
                   was_created, token_id, jwt_credentials, actual_token_name,
                   calls, res, http>>

Next ==
    \/ \E p \in Tasks : create_consumer_with_token(p)
    \/ \E p \in Tasks : generate_auto_token(p)
    \/ \E p \in Tasks : auto_generate_consumer_and_token(p)
    \/ \E p \in Tasks : get_or_create_consumer(p)
    \/ \E p \in Tasks : _create_consumer(p)
    \/ \E p \in Tasks : _get_existing_consumer(p)
    \/ \E p \in Tasks : create_jwt_credentials(p)
    \/ \E p \in Tasks : _handle_duplicate_token_name(p)
    \/ \E p \in Tasks : list_user_tokens(p)
    \/ \E p \in Tasks : delete_token_by_name(p)
    \/ \E p \in Tasks : delete_token_by_id(p)
    \/ \E p \in Tasks : delete_jwt_token(p)
    \/ Tick

Spec == Init /\ [][Next]_vars

TypeOK ==
    /\ \A p \in Tasks : pc[p] \in {"idle", "get_or_create_consumer", "_create_consumer",
            "_get_existing_consumer", "create_jwt_credentials",
            "_handle_duplicate_token_name", "delete_jwt_token", "done"}
    /\ now \in 0..MaxTick
    /\ faults \in 0..MaxFaults

----------------------------------------------------------------------------
(* Vocabulary of the properties *)

ProvisionOps == {"create_consumer_with_token", "generate_auto_token",
                 "auto_generate_consumer_and_token"}

Provisioning(p) == op[p] \in ProvisionOps

\* indices of the task's calls to an endpoint with a method
CallsTo(p, m, ep) == {i \in 1..Len(calls[p]) : calls[p][i].m = m /\ calls[p][i].ep = ep}

\* the gateway answered every call of the task to the endpoint regularly
NoFault(p, ep) ==
    \A i \in 1..Len(calls[p]) : calls[p][i].ep = ep => calls[p][i].st \notin FaultStatus

\* get_or_create_consumer has returned a consumer to the task
GotConsumer(p) ==
    /\ Provisioning(p)
    /\ \E i \in 1..Len(calls[p]) :
          calls[p][i].ep = "consumer" /\ calls[p][i].st \in {200, 201}

\* get_or_create_consumer has raised in the task
ConsumerFailed(p) == Provisioning(p) /\ pc[p] = "done" /\ ~GotConsumer(p)

NamedConsumers(u) == {i \in 1..Len(consumers) : consumers[i].username = u}

\* the first create of the task was answered 409 and its retry 201
RetrySucceeded(p) ==
    /\ Provisioning(p)
    /\ \E i, j \in CallsTo(p, "POST", "jwt") :
          i < j /\ calls[p][i].st = 409 /\ calls[p][j].st = 201

\* both creates of the task were answered 409
DoubleConflict(p) ==
    /\ Provisioning(p)
    /\ \E i, j \in CallsTo(p, "POST", "jwt") :
          i < j /\ calls[p][i].st = 409 /\ calls[p][j].st = 409

----------------------------------------------------------------------------
(* Properties *)

\* C1: when no consumer named u existed and tasks run get_or_create_consumer(u)
\* against a gateway that answers regularly, under every interleaving no call
\* fails, of two calls that returned exactly one has was_created = TRUE, and
\* exactly one consumer named u exists.
C1_IdempotentUpsert ==
    \A p, q \in Tasks :
        ( /\ p # q
          /\ Provisioning(p) /\ Provisioning(q)
          /\ user[p] = user[q]
          /\ user[p] \notin consumers0
          /\ NoFault(p, "consumer") /\ NoFault(q, "consumer") )
        => /\ ~ConsumerFailed(p)
           /\ (GotConsumer(p) /\ GotConsumer(q)) =>
                 /\ was_created[p] # was_created[q]
                 /\ Cardinality(NamedConsumers(user[p])) = 1

\* C1 witness: two calls raced, the loser's create was answered 409
C1_Witness ==
    \E p, q \in Tasks :
        /\ p # q /\ user[p] = user[q] /\ user[p] \notin consumers0
        /\ GotConsumer(p) /\ GotConsumer(q)
        /\ was_created[p] /\ ~was_created[q]
        /\ \E i \in CallsTo(q, "POST", "consumer") : calls[q][i].st = 409

\* C2: when the first create was answered 409 and the retry succeeded, the
\* returned name differs from the requested one, starts with the requested
\* name followed by "_", and is the key sent in the retry and stored.
C2_RetryName ==
    \A p \in Tasks :
        RetrySucceeded(p) =>
            /\ actual_token_name[p] # token_name[p]
            /\ IsPrefix(token_name[p] \o <<"_">>, actual_token_name[p])
            /\ actual_token_name[p] = calls[p][Len(calls[p])].key
            /\ actual_token_name[p] = jwt_credentials[p].key

\* C2 witness: a retry succeeded
C2_Witness == \E p \in Tasks : RetrySucceeded(p) /\ pc[p] = "done" /\ res[p].st = "ok"

\* C3: once both creates of a call were answered 409 the call has failed with
\* the name-exhausted error, the second 409 stored nothing, and the call made
\* exactly two creates, ever.
C3_Exhausted ==
    [][ \A p \in Tasks :
          DoubleConflict(p)' =>
              /\ pc'[p] = "done"
              /\ res'[p].st = "error" /\ res'[p].err = "jwt_name_exhausted"
              /\ jwt_credentials'[p] = NoVal
              /\ Cardinality(CallsTo(p, "POST", "jwt")') = 2
              /\ ~DoubleConflict(p) => jwt' = jwt ]_vars

\* C3 witness: a call got 409 twice
C3_Witness == \E p \in Tasks : DoubleConflict(p)

\* C4: the token of every successful provisioning operation carries as kid the
\* key of the credential the gateway stored for the call, and is signed with
\* the secret whose base64 encoding that credential holds.
C4_KidMatchesStoredKey ==
    \A p \in Tasks :
        (Provisioning(p) /\ res[p].st = "ok") =>
            /\ jwt_kid(res[p].val.token) = jwt_credentials[p].key
            /\ b64ok(jwt_credentials[p].secret)
            /\ jwt_key(res[p].val.token) = b64decode(jwt_credentials[p].secret)
            /\ jwt_iss(res[p].val.token) = user[p]

\* C4 witness: a provisioning operation succeeded under a renamed key
C4_Witness ==
    \E p \in Tasks :
        /\ Provisioning(p) /\ res[p].st = "ok" /\ RetrySucceeded(p)
        /\ jwt_credentials[p].key # token_name[p]

\* the step in which task p runs list_user_tokens and the gateway answers 200
Listed(p) ==
    /\ pc[p] = "idle"
    /\ op'[p] = "list_user_tokens"
    /\ calls'[p][1].st = 200

\* a listed credential whose secret decodes / does not decode
Decodable(d) == IsDict(d) /\ ~NoSecret(d) /\ b64ok(d.secret)
Undecodable(d) == IsDict(d) /\ ~NoSecret(d) /\ ~b64ok(d.secret)

\* a listing with exactly one undecodable entry among otherwise valid entries
OneBadAmongValid(items) ==
    /\ Cardinality({i \in 1..Len(items) : Undecodable(items[i])}) = 1
    /\ \A i \in 1..Len(items) : Decodable(items[i]) \/ Undecodable(items[i])

\* C5 (as claimed): listing one undecodable credential among valid ones does
\* not raise, total_tokens counts the valid entries only, and every returned
\* entry is an enhanced one.
C5_CountsValidOnly ==
    [][ \A p \in Tasks :
          (Listed(p) /\ OneBadAmongValid(jwt[user'[p]])) =>
              /\ res'[p].st = "ok"
              /\ res'[p].val.total_tokens =
                    Cardinality({i \in 1..Len(jwt[user'[p]]) :
                                    Decodable(jwt[user'[p]][i])})
              /\ \A k \in 1..Len(res'[p].val.tokens) :
                    "token" \in DOMAIN res'[p].val.tokens[k] ]_vars

\* C6 (as claimed): whenever the gateway listing succeeds, the listing
\* endpoint answers with a success response.
C6_ListingNeverFails ==
    \A p \in Tasks :
        (op[p] = "list_user_tokens" /\ pc[p] = "done" /\ calls[p][1].st = 200)
            => http[p] = 200

\* C7 (as claimed): no entry returned by list_user_tokens carries the stored
\* secret of a credential.
C7_NoSecretReturned ==
    \A p \in Tasks :
        (op[p] = "list_user_tokens" /\ res[p].st = "ok") =>
            \A k \in 1..Len(res[p].val.tokens) :
                "secret" \notin DOMAIN res[p].val.tokens[k]

\* s occurs in t as a contiguous run
Occurs(s, t) == \E i \in 0..(Len(t) - Len(s)) : SubSeq(t, i + 1, i + Len(s)) = s

\* C8: for every listed credential with a decodable secret whose regenerated
\* JWT is longer than 20, the entry returned for it has as token the first 10
\* characters, "...", and the last 10 characters of that JWT, and the full JWT
\* is in none of the entry's string fields.
C8_Truncation ==
    [][ \A p \in Tasks :
          Listed(p) =>
            \A i \in 1..Len(jwt[user'[p]]) :
              LET d == jwt[user'[p]][i]
                  J == jwt_encode(user'[p], d.key, now + JWT_EXPIRATION_SECONDS,
                                  now, b64decode(d.secret))
              IN  (Decodable(d) /\ Len(J) > 20) =>
                    \E k \in 1..Len(res'[p].val.tokens) :
                      LET e == res'[p].val.tokens[k]
                      IN  /\ e.id = d.id
                          /\ e.token = SubSeq(J, 1, 10) \o <<".", ".", ".">>
                                       \o SubSeq(J, Len(J) - 9, Len(J))
                          /\ Len(e.token) = 23
                          /\ ~Occurs(J, e.token)
                          /\ e.key # J /\ e.token_name # J ]_vars

\* C8 witness: a listing returned an enhanced entry with a truncated token
C8_Witness ==
    \E p \in Tasks :
        /\ op[p] = "list_user_tokens" /\ res[p].st = "ok"
        /\ \E k \in 1..Len(res[p].val.tokens) :
              /\ "token" \in DOMAIN res[p].val.tokens[k]
              /\ Len(res[p].val.tokens[k].token) = 23

\* C9 (as claimed): whenever no credential of u has key n and the gateway
\* answers regularly, delete_token_by_name(u, n) fails with the not-found
\* error (answered 404 by the view), changes no credential, and never sends a
\* delete request.
C9_DeleteMissingIsNotFound ==
    [][ \A p \in Tasks :
          /\ ( /\ pc[p] = "idle"
               /\ op'[p] = "delete_token_by_name"
               /\ calls'[p][1].st \notin FaultStatus
               /\ ~KeyUsed(jwt[user'[p]], token_name'[p]) )
             => /\ pc'[p] = "done"
                /\ res'[p].st = "error" /\ res'[p].err = "token_not_found"
                /\ http'[p] = 404
                /\ jwt' = jwt
          /\ (op[p] = "delete_token_by_name" /\ res[p].err = "token_not_found")
             => calls'[p] = calls[p] ]_vars

\* the task's delete request was answered with the status
DeleteAnswered(p, st) == \E i \in CallsTo(p, "DELETE", "jwt") : calls[p][i].st = st

\* C10: of two finished delete_token_by_name(u, n) calls against a credential
\* that existed, under every interleaving exactly one delete request was
\* answered 204, exactly one call returned success, the credential is gone,
\* and a call whose delete was answered 404 or whose lookup found nothing
\* reports an error.
C10_ConcurrentDelete ==
    \A p, q \in Tasks :
        ( /\ p # q
          /\ op[p] = "delete_token_by_name" /\ op[q] = "delete_token_by_name"
          /\ user[p] = user[q] /\ token_name[p] = token_name[q]
          /\ pc[p] = "done" /\ pc[q] = "done"
          /\ NoFault(p, "jwt") /\ NoFault(q, "jwt")
          /\ CallsTo(p, "DELETE", "jwt") \cup CallsTo(q, "DELETE", "jwt") # {} )
        => /\ (res[p].st = "ok") # (res[q].st = "ok")
           /\ DeleteAnswered(p, 204) # DeleteAnswered(q, 204)
           /\ ~KeyUsed(jwt[user[p]], token_name[p])
           /\ (DeleteAnswered(p, 404) \/ CallsTo(p, "DELETE", "jwt") = {})
                 => (res[p].st = "error" /\ http[p] = 404)
           /\ res[p].st = "ok" =>
                 (DeleteAnswered(p, 204) /\ res[p].val.deleted_token_id = token_id[p])

\* C10 witness: both calls found the credential, one delete was answered 404
C10_Witness ==
    \E p, q \in Tasks :
        /\ p # q
        /\ op[p] = "delete_token_by_name" /\ op[q] = "delete_token_by_name"
        /\ user[p] = user[q] /\ token_name[p] = token_name[q]
        /\ pc[p] = "done" /\ pc[q] = "done"
        /\ res[p].st = "ok" /\ DeleteAnswered(q, 404) /\ res[q].st = "error"

\* the task's delete-by-id request was answered with the status
DeleteByIdAnswered(p, st) ==
    /\ op[p] = "delete_token_by_id" /\ pc[p] = "done"
    /\ calls[p][Len(calls[p])].st = st

\* C11 (as claimed): delete by id answers 404 when the gateway answered the
\* delete with 404 and 500 only on other gateway failures; a gateway 404 is
\* never answered as 500.
C11_DeleteByIdNotFoundIs404 ==
    \A p \in Tasks :
        /\ DeleteByIdAnswered(p, 404) => http[p] = 404
        /\ DeleteByIdAnswered(p, 500) => http[p] = 500
        /\ DeleteByIdAnswered(p, 204) => http[p] = 200

\* the task's provisioning operation returned a result carrying consumer_uuid
ReturnedUuid(p) ==
    /\ Provisioning(p) /\ pc[p] = "done" /\ res[p].st = "ok"
    /\ "consumer_uuid" \in DOMAIN res[p].val

C13_TokenRoundTrip ==
    \A p \in Tasks :
        (Provisioning(p) /\ pc[p] = "done" /\ res[p].st = "ok") =>
            LET tok == res[p].val.token
            IN  /\ jwt_verify(tok, secret[p])
                /\ jwt_iss(tok) = user[p]
                /\ jwt_kid(tok) = actual_token_name[p]
                /\ \A s \in Secrets \ {secret[p]} : ~jwt_verify(tok, s)

\* C13 witness: tokens were generated for two principals, with different keys
\* and secrets, one key not being the principal's name
C13_Witness ==
    \E p, q \in Tasks :
        /\ Provisioning(p) /\ pc[p] = "done" /\ res[p].st = "ok"
        /\ Provisioning(q) /\ pc[q] = "done" /\ res[q].st = "ok"
        /\ user[p] # user[q] /\ secret[p] # secret[q]
        /\ actual_token_name[p] # <<user[p]>>
        /\ actual_token_name[p] # actual_token_name[q]

\* a gateway call of the task timed out
TimedOut(p) == \E i \in 1..Len(calls[p]) : calls[p][i].st = Timeout

\* the exceptions the services raise for gateway failures other than a timeout
UpstreamExceptions == {"Exception", "HTTPStatusError"}

\* C14 (as claimed): an operation whose gateway call timed out has failed
\* without a further call, and the answer to the caller differs from the
\* answer the same operation gives for other gateway failures.
C14_TimeoutDistinguishable ==
    \A p \in Tasks :
        TimedOut(p) =>
            /\ calls[p][Len(calls[p])].st = Timeout
            /\ Cardinality({i \in 1..Len(calls[p]) : calls[p][i].st = Timeout}) = 1
            /\ pc[p] = "done" /\ res[p].st = "error"
            /\ res[p].exc \notin UpstreamExceptions
            /\ \A e \in UpstreamExceptions : http[p] # ViewError(op[p], e)

\* the errors create_jwt_credentials and its retry raise by themselves
CredentialStepErrors == {"create_jwt_failed", "jwt_name_exhausted"}

\* C15 (as claimed): when a provisioning operation created the consumer and
\* then failed, the error reported names credential creation as the failed
\* step.
C15_CredentialStepReported ==
    \A p \in Tasks :
        ( /\ Provisioning(p) /\ pc[p] = "done" /\ res[p].st = "error"
          /\ GotConsumer(p) /\ was_created[p] )
        => res[p].err \in CredentialStepErrors

\* the task's own POST /consumers was answered 201
OwnCreate201(p) == \E i \in CallsTo(p, "POST", "consumer") : calls[p][i].st = 201

\* C16: auto_generate_consumer_and_token returns consumer_created = TRUE
\* exactly when the call's own consumer create was answered 201, hence FALSE
\* when the lookup found the consumer or the create was answered 409.
C16_ConsumerCreatedFlag ==
    \A p \in Tasks :
        ( /\ op[p] = "auto_generate_consumer_and_token"
          /\ pc[p] = "done" /\ res[p].st = "ok" )
        => /\ res[p].val.consumer_created <=> OwnCreate201(p)
           /\ calls[p][1].st = 200 => ~res[p].val.consumer_created
           /\ (\E i \in CallsTo(p, "POST", "consumer") : calls[p][i].st = 409)
                 => ~res[p].val.consumer_created

\* C16 witness: two calls for one absent consumer returned, one having created
\* it and the other having lost the race with 409
C16_Witness ==
    \E p, q \in Tasks :
        /\ p # q /\ user[p] = user[q]
        /\ op[p] = "auto_generate_consumer_and_token" /\ op[q] = op[p]
        /\ pc[p] = "done" /\ res[p].st = "ok"
        /\ pc[q] = "done" /\ res[q].st = "ok"
        /\ res[p].val.consumer_created /\ ~res[q].val.consumer_created
        /\ \E i \in CallsTo(q, "POST", "consumer") : calls[q][i].st = 409

\* C17: the token_name generate_auto_token returns is the key of the credential
\* the gateway stored for the call: the requested (or default) name when the
\* first create succeeded, the different, suffixed name when it was renamed.
C17_ReturnedNameIsStoredKey ==
    \A p \in Tasks :
        (op[p] = "generate_auto_token" /\ pc[p] = "done" /\ res[p].st = "ok") =>
            /\ res[p].val.token_name = jwt_credentials[p].key
            /\ res[p].val.token_id = jwt_credentials[p].id
            /\ ~RetrySucceeded(p) => res[p].val.token_name = token_name[p]
            /\ RetrySucceeded(p) =>
                  /\ res[p].val.token_name # token_name[p]
                  /\ res[p].val.token_name = calls[p][Len(calls[p])].key

\* C17 witness: generate_auto_token returned after its requested name collided
C17_Witness ==
    \E p \in Tasks :
        /\ op[p] = "generate_auto_token" /\ pc[p] = "done" /\ res[p].st = "ok"
        /\ RetrySucceeded(p) /\ token_name[p] = <<"tok">>

\* the task's provisioning operation returned a stored credential
Created(p) == Provisioning(p) /\ pc[p] = "done" /\ res[p].st = "ok"

\* the credentials stored for u under the key
StoredUnder(u, key) ==
    {i \in 1..Len(jwt[u]) : IsDict(jwt[u][i]) /\ jwt[u][i].key = key}

\* C18 (as claimed): of two concurrent create_jwt_credentials(u, k) with the
\* same k at most one obtains the key k, successful calls return distinct keys
\* which no other stored credential of u carries, and a call fails with the
\* name-exhausted error only if its retried create was answered 409.
C18_ConcurrentSameKey ==
    \A p, q \in Tasks :
        ( /\ p # q /\ Provisioning(p) /\ Provisioning(q)
          /\ user[p] = user[q] /\ token_name[p] = token_name[q] )
        => /\ (Created(p) /\ Created(q)) =>
                 /\ ~(actual_token_name[p] = token_name[p]
                        /\ actual_token_name[q] = token_name[q])
                 /\ jwt_credentials[p].key # jwt_credentials[q].key
           /\ Created(p) =>
                 Cardinality(StoredUnder(user[p], jwt_credentials[p].key)) = 1
           /\ (pc[p] = "done" /\ res[p].err = "jwt_name_exhausted") =>
                 calls[p][Len(calls[p])].st = 409

\* C19 (as claimed): every gateway call that was answered with a status has
\* recorded exactly one call-count observation and exactly one duration
\* observation.
C19_OneCountOneDuration ==
    \A p \in Tasks : \A i \in 1..Len(calls[p]) :
        calls[p][i].st # Timeout =>
            calls[p][i].counted = 1 /\ calls[p][i].timed = 1

\* the task's calls to the consumer endpoints, in the order issued
ConsumerCalls(p) == SelectSeq(calls[p], LAMBDA c : c.ep = "consumer")

\* C20: get_or_create_consumer issues at most three calls, in the order
\* lookup, create, re-lookup: the create only after the lookup answered 404,
\* the re-lookup only after the create answered 409, and after a lookup
\* answered 200 no create follows and was_created is FALSE.
C20_LookupCreateRelookup ==
    \A p \in Tasks :
        Provisioning(p) =>
            LET c == ConsumerCalls(p)
            IN  /\ Len(c) <= 3
                /\ Len(c) >= 1 => c[1].m = "GET"
                /\ Len(c) >= 2 => c[2].m = "POST" /\ c[1].st = 404
                /\ Len(c) >= 3 => c[3].m = "GET" /\ c[2].st = 409
                /\ (Len(c) >= 1 /\ c[1].st = 200) =>
                      /\ Len(c) = 1
                      /\ ~was_created[p]
                      /\ pc[p] # "_create_consumer"

\* C20 witness: a call went through lookup 404, create 409 and re-lookup 200
C20_Witness ==
    \E p \in Tasks :
        /\ Provisioning(p) /\ Len(ConsumerCalls(p)) = 3
        /\ ConsumerCalls(p)[1].st = 404 /\ ConsumerCalls(p)[2].st = 409
        /\ ConsumerCalls(p)[3].st = 200 /\ ~was_created[p]
        /\ pc[p] = "done" /\ res[p].st = "ok"

\* the task's credential create requests, in the order issued
JwtCreates(p) == SelectSeq(calls[p], LAMBDA c : c.ep = "jwt" /\ c.m = "POST")

\* C21: a create_jwt_credentials call sends at most two create requests, the
\* second only after the first was answered 409; a first request that failed
\* otherwise is the call's last request and the call has failed at once.
C21_SingleRetryOnConflict ==
    \A p \in Tasks :
        Provisioning(p) =>
            LET c == JwtCreates(p)
            IN  /\ Len(c) <= 2
                /\ Len(c) = 2 => c[1].st = 409
                /\ (Len(c) >= 1 /\ c[1].st \notin {201, 409}) =>
                      /\ Len(c) = 1
                      /\ pc[p] = "done" /\ res[p].st = "error"
                      /\ res[p].err # "jwt_name_exhausted"

\* C21 witness: a first create was answered 500 and the call failed after it
C21_Witness ==
    \E p \in Tasks :
        /\ Provisioning(p) /\ Len(JwtCreates(p)) = 1
        /\ JwtCreates(p)[1].st = 500
        /\ pc[p] = "done" /\ res[p].err = "create_jwt_failed"

\* C22 (as claimed): the name-exhausted error is reported only when the
\* retried create was answered 409; a retried create answered with another
\* error status is reported with a different error.
C22_ExhaustedOnlyOnConflict ==
    \A p \in Tasks :
        (Provisioning(p) /\ pc[p] = "done" /\ Len(JwtCreates(p)) = 2) =>
            /\ res[p].err = "jwt_name_exhausted" => JwtCreates(p)[2].st = 409
            /\ JwtCreates(p)[2].st = 500 =>
                  res[p].st = "error" /\ res[p].err # "jwt_name_exhausted"

\* a pending gateway call of the task is answered (or times out) and the
\* coroutine runs to its next call or to its end
Resume(p) ==
    \/ get_or_create_consumer(p)
    \/ _create_consumer(p)
    \/ _get_existing_consumer(p)
    \/ create_jwt_credentials(p)
    \/ _handle_duplicate_token_name(p)
    \/ delete_jwt_token(p)

\* every awaited gateway call eventually completes
FairSpec == Spec /\ \A p \in Tasks : WF_vars(Resume(p))

\* C23: every provisioning operation ends, with a result or an error, and has
\* then made at most five gateway calls, at most three to the consumer
\* endpoints and at most two credential creates, whatever the gateway answered.
C23_TerminatesInFiveCalls ==
    /\ [](\A p \in Tasks :
            Provisioning(p) =>
                /\ Len(calls[p]) <= 5
                /\ Len(ConsumerCalls(p)) <= 3
                /\ Len(JwtCreates(p)) <= 2
                /\ Len(calls[p]) = Len(ConsumerCalls(p)) + Len(JwtCreates(p)))
    /\ \A p \in Tasks :
          [](Provisioning(p) => <>(pc[p] = "done" /\ res[p].st \in {"ok", "error"}))

\* C23 witness: an operation ended after five gateway calls
C23_Witness ==
    \E p \in Tasks :
        /\ Provisioning(p) /\ pc[p] = "done"
        /\ Len(calls[p]) = 5 /\ Len(ConsumerCalls(p)) = 3 /\ Len(JwtCreates(p)) = 2

\* the task called generate_auto_token without a name in second t
AutoNamedAt(p, t) ==
    /\ op[p] = "generate_auto_token"
    /\ token_name[p] = generate_default_token_name(user[p], "token", t)

\* C24: two generate_auto_token(u) calls without a name in one clock second
\* carry the same default name; when both have ended, the gateway answered
\* regularly and no suffixed name collided, both succeeded, under distinct
\* stored names, exactly one of them through the conflict retry.
C24_SameSecondDefaultName ==
    \A p, q \in Tasks : \A t \in 0..MaxTick :
        ( /\ p # q /\ user[p] = user[q]
          /\ AutoNamedAt(p, t) /\ AutoNamedAt(q, t) )
        => /\ token_name[p] = token_name[q]
           /\ ( /\ pc[p] = "done" /\ pc[q] = "done"
                /\ NoFault(p, "consumer") /\ NoFault(p, "jwt")
                /\ NoFault(q, "consumer") /\ NoFault(q, "jwt")
                /\ ~DoubleConflict(p) /\ ~DoubleConflict(q) )
              => /\ res[p].st = "ok" /\ res[q].st = "ok"
                 /\ res[p].val.token_name # res[q].val.token_name
                 /\ jwt_credentials[p].key # jwt_credentials[q].key
                 /\ RetrySucceeded(p) # RetrySucceeded(q)

\* C24 witness: two unnamed calls of one second both succeeded, the later one
\* under the suffixed name
C24_Witness ==
    \E p, q \in Tasks : \E t \in 0..MaxTick :
        /\ p # q /\ user[p] = user[q]
        /\ AutoNamedAt(p, t) /\ AutoNamedAt(q, t)
        /\ pc[p] = "done" /\ pc[q] = "done"
        /\ res[p].st = "ok" /\ res[q].st = "ok"
        /\ ~RetrySucceeded(p) /\ RetrySucceeded(q)
        /\ IsPrefix(token_name[p] \o <<"_">>, res[q].val.token_name)

\* the dict items of a gateway listing
DictItems(items) == {i \in 1..Len(items) : IsDict(items[i])}

\* C25: whenever the gateway listing succeeds, list_user_tokens returns, its
\* total_tokens is the length of its tokens list, there is one entry per dict
\* item of the listing and none for a non-dict item.
C25_NonDictSkipped ==
    [][ \A p \in Tasks :
          Listed(p) =>
              /\ res'[p].st = "ok"
              /\ res'[p].val.total_tokens = Len(res'[p].val.tokens)
              /\ Len(res'[p].val.tokens) = Cardinality(DictItems(jwt[user'[p]]))
              /\ \A k \in 1..Len(res'[p].val.tokens) :
                    IsDict(res'[p].val.tokens[k]) ]_vars

\* C25 witness: a listing that held a non-dict item was returned without it
C25_Witness ==
    \E p \in Tasks :
        /\ op[p] = "list_user_tokens" /\ pc[p] = "done" /\ res[p].st = "ok"
        /\ Len(jwt[user[p]]) = Len(Pool)
        /\ ~IsDict(jwt[user[p]][Len(Pool)])
        /\ res[p].val.total_tokens = Len(Pool) - 1
        /\ Len(res[p].val.tokens) = Len(Pool) - 1

\* C26: a provisioning operation sends its credential create only after all
\* its consumer calls, the last of which returned the consumer; it returns a
\* token only after the gateway stored the credential with 201; when the
\* consumer step failed it sent no credential request and returned no token.
C26_ConsumerThenCredentialThenToken ==
    \A p \in Tasks :
        Provisioning(p) =>
            /\ JwtCreates(p) # <<>> =>
                  /\ \A i \in 1..Len(calls[p]) : \A j \in CallsTo(p, "POST", "jwt") :
                        calls[p][i].ep = "consumer" => i < j
                  /\ ConsumerCalls(p) # <<>>
                  /\ ConsumerCalls(p)[Len(ConsumerCalls(p))].st \in {200, 201}
            /\ res[p].st = "ok" =>
                  /\ calls[p][Len(calls[p])].ep = "jwt"
                  /\ calls[p][Len(calls[p])].st = 201
                  /\ jwt_credentials[p] # NoVal
                  /\ jwt_credentials[p].key = calls[p][Len(calls[p])].key
            /\ ConsumerFailed(p) =>
                  /\ JwtCreates(p) = <<>>
                  /\ res[p].st = "error"
                  /\ jwt_credentials[p] = NoVal

\* C26 witness: one operation failed in its consumer step, another returned a
\* token after its consumer and credential calls
C26_Witness ==
    \E p, q \in Tasks :
        /\ ConsumerFailed(p) /\ res[p].st = "error"
        /\ Provisioning(q) /\ pc[q] = "done" /\ res[q].st = "ok"
        /\ Len(ConsumerCalls(q)) >= 2

\* C27: no step removes a consumer: a consumer named u that exists before a
\* step of any provisioning, listing or deletion operation, failed ones
\* included, exists after it, at its place and unaltered.
C27_ConsumerNeverDeleted ==
    [][ /\ \A u \in Users : HasConsumer(consumers, u) => HasConsumer(consumers', u)
        /\ Len(consumers') >= Len(consumers)
        /\ SubSeq(consumers', 1, Len(consumers)) = consumers ]_vars

\* C27 witness: a consumer is there after one operation deleted a token of it
\* and another operation on it failed
C27_Witness ==
    \E p, q \in Tasks :
        /\ p # q /\ user[p] = user[q] /\ HasConsumer(consumers, user[p])
        /\ op[p] \in {"delete_token_by_id", "delete_token_by_name"}
        /\ pc[p] = "done" /\ calls[p][Len(calls[p])].st = 204
        /\ Provisioning(q) /\ pc[q] = "done" /\ res[q].st = "error"

\* the credential the gateway holds under the id it answered the task with
StoredFor(p) ==
    {i \in 1..Len(jwt[user[p]]) :
        IsDict(jwt[user[p]][i]) /\ jwt[user[p]][i].id = jwt_credentials[p].id}

\* C28: on the direct and on the retry path the secret create_jwt_credentials
\* returns, with which the token is signed, is the secret generated for the
\* first attempt and the base64-decoding of the secret the gateway stored, so
\* the token verifies against the stored credential.
C28_ReturnedSecretIsStoredSecret ==
    \A p \in Tasks :
        Created(p) =>
            /\ jwt_credentials[p].secret = b64encode(secret[p])
            /\ jwt_key(res[p].val.token) = secret[p]
            /\ \A i \in StoredFor(p) :
                  /\ b64ok(jwt[user[p]][i].secret)
                  /\ b64decode(jwt[user[p]][i].secret) = jwt_key(res[p].val.token)
                  /\ jwt_verify(res[p].val.token, b64decode(jwt[user[p]][i].secret))

\* C28 witness: a credential created on the retry path is held by the gateway
C28_Witness ==
    \E p \in Tasks :
        /\ Created(p) /\ RetrySucceeded(p) /\ StoredFor(p) # {}
        /\ secret[p] = "s2"

\* task p takes a step of its provisioning operation
ProvisionStep(p) == Provisioning(p) /\ pc[p] # "done" /\ pc'[p] # pc[p]

\* C29: the step in which a provisioning operation succeeds appends exactly
\* the created credential to the consumer's credentials and changes nothing
\* else; every other step of the operation, a failed or conflicting create
\* included, leaves all credentials unchanged.
C29_AddsExactlyOneCredential ==
    [][ \A p \in Tasks :
          ProvisionStep(p) =>
              IF res'[p].st = "ok"
              THEN /\ jwt'[user[p]] = Append(jwt[user[p]], jwt_credentials'[p])
                   /\ \A u \in Users \ {user[p]} : jwt'[u] = jwt[u]
                   /\ Cardinality(CallsTo(p, "POST", "jwt")') \in {1, 2}
                   /\ \A i \in CallsTo(p, "POST", "jwt")' :
                         calls'[p][i].st = 201 <=> i = Len(calls'[p])
              ELSE jwt' = jwt ]_vars

\* C29 witness: an operation succeeded for a consumer that held credentials,
\* and another one failed in its credential create
C29_Witness ==
    \E p, q \in Tasks :
        /\ Created(p) /\ Len(jwt[user[p]]) >= 3
        /\ jwt[user[p]][1] = Pool[1] /\ jwt[user[p]][2] = Pool[2]
        /\ jwt[user[p]][Len(jwt[user[p]])] = jwt_credentials[p]
        /\ Provisioning(q) /\ pc[q] = "done" /\ res[q].st = "error"
        /\ JwtCreates(q) # <<>>

\* the step in which task p's delete_token_by_name returns its result
DeletedByName(p) ==
    /\ op[p] = "delete_token_by_name" /\ pc[p] = "delete_jwt_token"
    /\ pc'[p] = "done" /\ res'[p].st = "ok"

\* C30: the step in which delete_token_by_name(u, n) succeeds removes exactly
\* the first credential of u's listing whose key is n, leaves u's other
\* credentials and every other consumer's credentials as they were, and
\* returns the id of the removed credential as deleted_token_id.
C30_DeleteByNameRemovesFirstMatch ==
    [][ \A p \in Tasks :
          DeletedByName(p) =>
              LET items == jwt[user[p]]
                  i == FindKey(items, token_name[p])
              IN  /\ i # 0
                  /\ items[i].key = token_name[p]
                  /\ \A k \in 1..(i - 1) :
                        IsDict(items[k]) => items[k].key # token_name[p]
                  /\ jwt'[user[p]] = RemoveAt(items, i)
                  /\ Len(jwt'[user[p]]) = Len(items) - 1
                  /\ \A u \in Users \ {user[p]} : jwt'[u] = jwt[u]
                  /\ res'[p].val.deleted_token_id = items[i].id
                  /\ res'[p].val.deleted_token_name = token_name[p] ]_vars

\* C30 witness: the second credential of a listing was deleted by name and the
\* first one is still there
C30_Witness ==
    \E p \in Tasks :
        /\ op[p] = "delete_token_by_name" /\ pc[p] = "done" /\ res[p].st = "ok"
        /\ token_name[p] = <<"tok">>
        /\ res[p].val.deleted_token_id = Pool[2].id
        /\ Len(jwt[user[p]]) >= 2
        /\ jwt[user[p]][1] = Pool[1] /\ jwt[user[p]][2] = Pool[3]

====
